---- MODULE Spec2Model ----
(***************************************************************************)
(* Rentify Stripe backend (src/server.js): the payment-and-refund          *)
(* reconciliation flow (POST /create-payment-intent, POST /refund) and the *)
(* transaction-history endpoints (POST /transactions/renter,               *)
(* POST /transactions/owner), with the payment platform as environment.    *)
(***************************************************************************)
EXTENDS Integers, Sequences, FiniteSets, TLC

(* ------------------------------ bounds --------------------------------- *)
\* Largest value of the millisecond clock read by Date.now().
MaxClock == 1
\* Payment intents the service creates in one behaviour.
MaxPI == 2
\* POST /refund requests in one behaviour (they may overlap in time).
MaxReq == 2

(* --------------------------- JavaScript values ------------------------- *)
\* A string is the tuple of its pieces; <<>> is the empty string "".
Undef == [t |-> "undefined"]
Str(s) == [t |-> "string", v |-> s]
Num(n) == [t |-> "number", v |-> n]
Null == [t |-> "null"]

\* !x for the values a JSON body field can take here.
Falsy(x) ==
  \/ x.t = "undefined"
  \/ (x.t = "number" /\ x.v = 0)
  \/ (x.t = "string" /\ x.v = <<>>)

\* A destructuring default (`name = dflt`) applies to undefined only.
Default(x, dflt) == IF x.t = "undefined" THEN dflt ELSE x

\* The id "pi_<k>" the platform gives the k-th payment intent.
PiId(k) == Str(<<"pi_", k>>)

(* ------------------------------- state --------------------------------- *)
VARIABLES
  now,         \* Date.now(), in milliseconds
  pis,         \* platform: payment intents, by index
  transfers,   \* platform: transfers, by index
  refunds,     \* platform: refunds, by index
  reversals,   \* platform: transfer reversals, by index
  issued,      \* bodies of the 200 responses of POST /create-payment-intent
  lastCreate,  \* the last POST /create-payment-intent: body, calls, response
  reqs,        \* POST /refund requests: position, upstream calls, response
  hreq,        \* a transaction-history request and what the platform lists
  hresp        \* its response

vars == <<now, pis, transfers, refunds, reversals, issued, lastCreate, reqs,
          hreq, hresp>>

\* transfer_group of a payment intent that carries none.
NoGroup == <<>>
NoRefund == [id |-> 0, status |-> "none"]
NoResp == [status |-> 0]

\* err.message of a rejected platform call.
UpstreamMessage(op) == <<"StripeError", op>>

(* ------------------- POST /create-payment-intent ----------------------- *)
Customer == Str(<<"cus_A">>)
Owner == Str(<<"acct_1">>)
Body(amount, customerId, ownerConnectAccountId, platformFee) ==
  [amount |-> amount, customerId |-> customerId,
   ownerConnectAccountId |-> ownerConnectAccountId, platformFee |-> platformFee]

\* Request bodies: two complete ones (platformFee given or defaulted), and one
\* for each way a mandatory field can be absent or falsy.
Bodies ==
  { Body(Num(100), Customer, Owner, Undef),
    Body(Num(100), Customer, Owner, Num(10)),
    Body(Undef, Customer, Owner, Undef),
    Body(Num(0), Customer, Owner, Num(10)),
    Body(Num(100), Undef, Owner, Undef),
    Body(Num(100), Str(<<>>), Owner, Undef),
    Body(Num(100), Customer, Undef, Undef),
    Body(Num(100), Customer, Str(<<>>), Num(10)) }

\* The check with its last operand forgotten.
MissingFieldsWithoutOwner(amount, customerId, ownerConnectAccountId) ==
  Falsy(amount) \/ Falsy(customerId)

\* if (!amount || !customerId || !ownerConnectAccountId)
MissingFields(amount, customerId, ownerConnectAccountId) ==
  Falsy(amount) \/ Falsy(customerId) \/ Falsy(ownerConnectAccountId)

\* `booking_${Date.now()}`
MintTransferGroup(clock) == <<"booking_", clock>>

\* The argument of stripe.paymentIntents.create.
PaymentIntentParams(body, transferGroup) ==
  [amount |-> body.amount.v,
   customer |-> body.customerId,
   destination |-> body.ownerConnectAccountId,
   transfer_group |-> transferGroup,
   application_fee_amount |-> Default(body.platformFee, Num(0)).v]

\* The payment intent the platform stores for these parameters.
StoredIntent(params) ==
  [amount |-> params.amount,
   group |-> params.transfer_group,
   routed |-> TRUE,
   fee |-> params.application_fee_amount,
   charged |-> FALSE]

CreatePaymentIntent(body, ok) ==
  /\ IF MissingFields(body.amount, body.customerId, body.ownerConnectAccountId)
     THEN /\ lastCreate' = [body |-> body, calls |-> <<>>,
                            resp |-> [status |-> 400, error |-> "Missing fields"]]
          /\ UNCHANGED <<pis, issued>>
     ELSE LET transferGroup == MintTransferGroup(now)
              params == PaymentIntentParams(body, transferGroup)
              call == [op |-> "paymentIntents.create", arg |-> params, ok |-> ok]
          IN  /\ Len(issued) < MaxPI
              /\ IF ok
                 THEN /\ pis' = Append(pis, StoredIntent(params))
                      /\ issued' = Append(issued,
                            [paymentIntentId |-> PiId(Len(pis) + 1),
                             transferGroup |-> transferGroup])
                      /\ lastCreate' = [body |-> body, calls |-> <<call>>,
                            resp |-> [status |-> 200,
                                      paymentIntentId |-> PiId(Len(pis) + 1),
                                      transferGroup |-> transferGroup]]
                 ELSE /\ lastCreate' = [body |-> body, calls |-> <<call>>,
                            resp |-> [status |-> 500,
                                      error |-> UpstreamMessage(call.op)]]
                      /\ UNCHANGED <<pis, issued>>
  /\ UNCHANGED <<now, transfers, refunds, reversals, reqs, hreq, hresp>>

(* ------------------------ the platform at start ----------------------- *)
\* A payment made before the service tagged payments: charged, no
\* transfer_group, no destination route.
LegacyIntent ==
  [amount |-> 100, group |-> NoGroup, routed |-> FALSE, fee |-> 0,
   charged |-> TRUE]

\* A payment of the platform account made outside this service: charged and
\* tagged with a transfer_group under which no transfer was made.
ExternalIntent ==
  [amount |-> 100, group |-> <<"order_", 7>>, routed |-> FALSE, fee |-> 0,
   charged |-> TRUE]

\* The payment intents the platform holds before the service creates any.
Preexisting == <<LegacyIntent, ExternalIntent>>

(* ----------------------------- environment ----------------------------- *)
\* The wall clock advances by a millisecond.
Tick ==
  /\ now < MaxClock
  /\ now' = now + 1
  /\ UNCHANGED <<pis, transfers, refunds, reversals, issued, lastCreate, reqs,
                 hreq, hresp>>

\* The renter's client confirms payment intent p: the platform charges it and,
\* for a routed payment (transfer_data.destination), creates the destination
\* transfer, tagged with the payment's transfer_group.
ConfirmPayment(p) ==
  /\ p \in 1..Len(pis)
  /\ ~pis[p].charged
  /\ pis' = [pis EXCEPT ![p].charged = TRUE]
  /\ transfers' = IF pis[p].routed
                  THEN Append(transfers,
                         [pi |-> p, group |-> pis[p].group,
                          amount |-> pis[p].amount - pis[p].fee])
                  ELSE transfers
  /\ UNCHANGED <<now, refunds, reversals, issued, lastCreate, reqs, hreq, hresp>>

(* ----------------------------- POST /refund ---------------------------- *)
\* Payment identifiers a client may send: none, the empty string, or "pi_<k>"
\* (of a payment that exists or not).
PaymentIntentIds == {Undef, Str(<<>>)} \cup {PiId(k) : k \in 1..(Len(Preexisting) + MaxPI)}

\* if (!paymentIntentId)
MissingPaymentIntentId(paymentIntentId) == Falsy(paymentIntentId)

\* The index of the payment intent "pi_<k>".
PiIndex(paymentIntentId) == paymentIntentId.v[2]

\* The branch on a missing group never taken.
HasNoGroupNever(group) == FALSE

\* if (!group)
HasNoGroup(group) == group = NoGroup

\* A reversal of half the transfer.
ReversalAmountHalf(t) == t.amount \div 2

\* amount: t.amount   // FULL reversal
ReversalAmount(t) == t.amount

\* !!reversal
TransferReversed(reversal) == reversal.t # "null"

\* A failed reversal caught inside the loop, which goes on to the next
\* transfer.
CatchInsideLoop(req, call) ==
  IF call.op = "transfers.createReversal" /\ req.i < Len(req.data)
  THEN [req EXCEPT !.calls = Append(@, call), !.i = @ + 1]
  ELSE [req EXCEPT !.pc = "done",
                   !.calls = Append(@, call),
                   !.resp = [status |-> 500, error |-> UpstreamMessage(call.op)]]

\* A failed refunds.create swallowed: the handler goes on to retrieve.
CatchExceptRefundFailure(req, call) ==
  IF call.op = "refunds.create"
  THEN [req EXCEPT !.pc = "paymentIntents.retrieve",
                   !.calls = Append(@, call)]
  ELSE [req EXCEPT !.pc = "done",
                   !.calls = Append(@, call),
                   !.resp = [status |-> 500, error |-> UpstreamMessage(call.op)]]

\* catch (err) { return res.status(500).json({ error: err.message }) }
CatchRefund(req, call) ==
  [req EXCEPT !.pc = "done",
              !.calls = Append(@, call),
              !.resp = [status |-> 500, error |-> UpstreamMessage(call.op)]]

\* The platform's answer to transfers.list({ transfer_group }): the indices of
\* the transfers tagged with the group, newest first.
RECURSIVE ListTransfers(_, _)
ListTransfers(group, n) ==
  IF n = 0 THEN <<>>
  ELSE IF transfers[n].group = group
       THEN <<n>> \o ListTransfers(group, n - 1)
       ELSE ListTransfers(group, n - 1)

\* The handler up to its first await: validation, then refunds.create is sent.
RefundBegin(paymentIntentId) ==
  /\ Len(reqs) < MaxReq
  /\ LET req == [pid |-> paymentIntentId, pc |-> "refunds.create",
                 calls |-> <<>>, refund |-> NoRefund, group |-> NoGroup,
                 data |-> <<>>, i |-> 0, reversal |-> Null,
                 resp |-> NoResp]
     IN  reqs' = Append(reqs,
           IF MissingPaymentIntentId(paymentIntentId)
           THEN [req EXCEPT !.pc = "done",
                            !.resp = [status |-> 400,
                                      error |-> "Missing paymentIntentId"]]
           ELSE req)
  /\ UNCHANGED <<now, pis, transfers, refunds, reversals, issued, lastCreate,
                 hreq, hresp>>

\* 1. stripe.refunds.create returns.  The platform refunds only a payment it
\* knows and has charged; any call may also fail.
RefundCreate(r, ok) ==
  /\ r \in 1..Len(reqs)
  /\ reqs[r].pc = "refunds.create"
  /\ LET req == reqs[r]
         p == PiIndex(req.pid)
         call == [op |-> "refunds.create", arg |-> req.pid, ok |-> ok]
     IN  IF ok
         THEN /\ p \in 1..Len(pis)
              /\ pis[p].charged
              /\ refunds' = Append(refunds, [pi |-> p])
              /\ reqs' = [reqs EXCEPT ![r] =
                   [req EXCEPT !.pc = "paymentIntents.retrieve",
                               !.calls = Append(@, call),
                               !.refund = [id |-> Len(refunds) + 1,
                                           status |-> "succeeded"]]]
         ELSE /\ reqs' = [reqs EXCEPT ![r] = CatchRefund(req, call)]
              /\ UNCHANGED refunds
  /\ UNCHANGED <<now, pis, transfers, reversals, issued, lastCreate, hreq, hresp>>

\* 2. stripe.paymentIntents.retrieve returns (the platform retrieves only a
\* payment it knows); without a transfer_group the handler answers at once.
RefundRetrieve(r, ok) ==
  /\ r \in 1..Len(reqs)
  /\ reqs[r].pc = "paymentIntents.retrieve"
  /\ LET req == reqs[r]
         p == PiIndex(req.pid)
         call == [op |-> "paymentIntents.retrieve", arg |-> req.pid, ok |-> ok]
         group == pis[p].group
     IN  /\ ok => p \in 1..Len(pis)
         /\ reqs' = [reqs EXCEPT ![r] =
              IF ~ok THEN CatchRefund(req, call)
              ELSE IF HasNoGroup(group)
              THEN [req EXCEPT !.pc = "done",
                               !.calls = Append(@, call),
                               !.resp = [status |-> 200, success |-> TRUE,
                                         refundId |-> req.refund.id,
                                         refundStatus |-> req.refund.status,
                                         transferReversed |-> FALSE]]
              ELSE [req EXCEPT !.pc = "transfers.list",
                               !.calls = Append(@, call),
                               !.group = group]]
  /\ UNCHANGED <<now, pis, transfers, refunds, reversals, issued, lastCreate,
                 hreq, hresp>>

\* The 200 response after the reversal loop.
RefundDone(req, call, reversal) ==
  [req EXCEPT !.pc = "done",
              !.calls = Append(@, call),
              !.reversal = reversal,
              !.resp = [status |-> 200, success |-> TRUE,
                        refundId |-> req.refund.id,
                        refundStatus |-> req.refund.status,
                        transferReversed |-> TransferReversed(reversal),
                        reversal |-> reversal]]

\* 3. stripe.transfers.list returns; an empty list ends the loop at once.
RefundList(r, ok) ==
  /\ r \in 1..Len(reqs)
  /\ reqs[r].pc = "transfers.list"
  /\ LET req == reqs[r]
         call == [op |-> "transfers.list", arg |-> req.group, ok |-> ok]
         data == ListTransfers(req.group, Len(transfers))
     IN  reqs' = [reqs EXCEPT ![r] =
           IF ~ok THEN CatchRefund(req, call)
           ELSE IF data = <<>>
           THEN RefundDone(req, call, Null)
           ELSE [req EXCEPT !.pc = "transfers.createReversal",
                            !.calls = Append(@, call),
                            !.data = data,
                            !.i = 1]]
  /\ UNCHANGED <<now, pis, transfers, refunds, reversals, issued, lastCreate,
                 hreq, hresp>>

\* 4. stripe.transfers.createReversal returns for the i-th listed transfer.
RefundReverse(r, ok) ==
  /\ r \in 1..Len(reqs)
  /\ reqs[r].pc = "transfers.createReversal"
  /\ LET req == reqs[r]
         t == req.data[req.i]
         amount == ReversalAmount(transfers[t])
         call == [op |-> "transfers.createReversal",
                  arg |-> [transfer |-> t, amount |-> amount], ok |-> ok]
         reversal == [t |-> "object", id |-> Len(reversals) + 1,
                      transfer |-> t, amount |-> amount]
     IN  IF ok
         THEN /\ reversals' = Append(reversals,
                                [transfer |-> t, amount |-> amount])
              /\ reqs' = [reqs EXCEPT ![r] =
                   IF req.i = Len(req.data)
                   THEN RefundDone(req, call, reversal)
                   ELSE [req EXCEPT !.calls = Append(@, call),
                                    !.reversal = reversal,
                                    !.i = @ + 1]]
         ELSE /\ reqs' = [reqs EXCEPT ![r] = CatchRefund(req, call)]
              /\ UNCHANGED reversals
  /\ UNCHANGED <<now, pis, transfers, refunds, issued, lastCreate, hreq, hresp>>

(* --------------------------- specification ----------------------------- *)
NoHistory == [kind |-> "none"]

Init ==
  /\ now = 0
  /\ pis = Preexisting
  /\ transfers = <<>>
  /\ refunds = <<>>
  /\ reversals = <<>>
  /\ issued = <<>>
  /\ lastCreate = [body |-> [amount |-> Undef], calls |-> <<>>, resp |-> NoResp]
  /\ reqs = <<>>
  /\ hreq = NoHistory
  /\ hresp = NoResp

Next ==
  \/ Tick
  \/ \E body \in Bodies, ok \in BOOLEAN : CreatePaymentIntent(body, ok)
  \/ \E p \in 1..(Len(Preexisting) + MaxPI) : ConfirmPayment(p)
  \/ \E paymentIntentId \in PaymentIntentIds : RefundBegin(paymentIntentId)
  \/ \E r \in 1..MaxReq, ok \in BOOLEAN : RefundCreate(r, ok)
  \/ \E r \in 1..MaxReq, ok \in BOOLEAN : RefundRetrieve(r, ok)
  \/ \E r \in 1..MaxReq, ok \in BOOLEAN : RefundList(r, ok)
  \/ \E r \in 1..MaxReq, ok \in BOOLEAN : RefundReverse(r, ok)

Spec == Init /\ [][Next]_vars

(* ------------------------ transaction history -------------------------- *)
\* Longest list the platform returns to a history request.
MaxList == 2
\* Most reversals expanded on one transfer.
MaxRevs == 1

\* `created` timestamps (seconds) of the platform's records.
Created == {10, 20}
OtherCustomer == Str(<<"cus_B">>)

BoundedSeq(S, n) == UNION {[1..k -> S] : k \in 0..n}

\* One element of charges.list({ customer }).data.
ChargeRecords == [created : Created, amount : {1000}]
\* One element of refunds.list({ expand: ["data.charge"] }).data: the charge
\* is null or the expanded charge object.
RefundRecords ==
  [created : Created, amount : {250},
   charge : {Null} \cup [t : {"object"}, customer : {Customer, OtherCustomer}]]
\* One element of transfers.list({ destination, expand }).data: reversals is
\* absent or the expanded list.
TransferRecords ==
  [created : Created, amount : {900},
   reversals : {Undef} \cup
     [t : {"list"},
      data : BoundedSeq([created : Created, amount : {900}], MaxRevs)]]

RenterRequests ==
  [kind : {"renter"}, customerId : {Undef, Customer},
   charges : BoundedSeq(ChargeRecords, MaxList),
   refunds : BoundedSeq(RefundRecords, MaxList)]
OwnerRequests ==
  [kind : {"owner"}, connectAccountId : {Undef, Owner},
   transfers : BoundedSeq(TransferRecords, MaxList)]

\* c.amount / 100, as whole ringgit and sen.
AmountRm(amount) == <<amount \div 100, amount % 100>>

\* The filter without the comparison of customers.
RefundHasCharge(r, customerId) == r.charge.t # "null"

\* r.charge && r.charge.customer === customerId
RefundBelongs(r, customerId) ==
  r.charge.t # "null" /\ r.charge.customer = customerId

\* The comparison turned round: oldest first.
InsertByCreatedAsc(x, sorted) ==
  LET after == {k \in 1..Len(sorted) : sorted[k].created <= x.created}
      n == IF after = {} THEN 0
           ELSE CHOOSE k \in after : \A j \in after : j <= k
  IN  SubSeq(sorted, 1, n) \o <<x>> \o SubSeq(sorted, n + 1, Len(sorted))

\* One step of the stable sort by (a, b) => b.created - a.created: x goes
\* behind the last entry that is not older than it.
InsertByCreatedDesc(x, sorted) ==
  LET after == {k \in 1..Len(sorted) : sorted[k].created >= x.created}
      n == IF after = {} THEN 0
           ELSE CHOOSE k \in after : \A j \in after : j <= k
  IN  SubSeq(sorted, 1, n) \o <<x>> \o SubSeq(sorted, n + 1, Len(sorted))

\* [...].sort((a, b) => b.created - a.created)
RECURSIVE SortByCreatedDesc(_)
SortByCreatedDesc(entries) ==
  IF entries = <<>> THEN <<>>
  ELSE InsertByCreatedDesc(entries[Len(entries)],
         SortByCreatedDesc(SubSeq(entries, 1, Len(entries) - 1)))

\* charges.data.map(...)
Payments(charges) ==
  [k \in 1..Len(charges) |->
     [id |-> <<"ch_", k>>, amount |-> charges[k].amount,
      amountRm |-> AmountRm(charges[k].amount), created |-> charges[k].created,
      type |-> "payment", direction |-> "out"]]

\* refundsList.data.filter(...).map(...)
RECURSIVE Refunds(_, _, _)
Refunds(data, customerId, k) ==
  IF k > Len(data) THEN <<>>
  ELSE (IF RefundBelongs(data[k], customerId)
        THEN <<[id |-> <<"re_", k>>, amount |-> data[k].amount,
                amountRm |-> AmountRm(data[k].amount),
                created |-> data[k].created,
                type |-> "refund", direction |-> "in"]>>
        ELSE <<>>)
       \o Refunds(data, customerId, k + 1)

\* POST /transactions/renter.
TransactionsRenter(okCharges, okRefunds) ==
  /\ hreq.kind = "renter"
  /\ hresp = NoResp
  /\ hresp' =
       IF Falsy(hreq.customerId)
       THEN [status |-> 400, error |-> "Missing customerId"]
       ELSE IF ~okCharges
       THEN [status |-> 500, error |-> UpstreamMessage("charges.list")]
       ELSE IF ~okRefunds
       THEN [status |-> 500, error |-> UpstreamMessage("refunds.list")]
       ELSE [status |-> 200,
             transactions |->
               SortByCreatedDesc(Payments(hreq.charges)
                 \o Refunds(hreq.refunds, hreq.customerId, 1))]
  /\ UNCHANGED <<now, pis, transfers, refunds, reversals, issued, lastCreate,
                 reqs, hreq>>

\* t.reversals?.data || []
ReversalsOf(t) == IF t.reversals.t = "undefined" THEN <<>> ELSE t.reversals.data

\* payouts.push(...) for every transfer.
Payouts(data) ==
  [k \in 1..Len(data) |->
     [id |-> <<"tr_", k>>, amount |-> data[k].amount,
      amountRm |-> AmountRm(data[k].amount), created |-> data[k].created,
      type |-> "transfer", direction |-> "in"]]

\* reversals.push(...) for every reversal of every transfer, in order.
RECURSIVE OwnerReversals(_, _)
OwnerReversals(data, k) ==
  IF k > Len(data) THEN <<>>
  ELSE [j \in 1..Len(ReversalsOf(data[k])) |->
          [id |-> <<"trr_", k, j>>,
           amount |-> ReversalsOf(data[k])[j].amount,
           amountRm |-> AmountRm(ReversalsOf(data[k])[j].amount),
           created |-> ReversalsOf(data[k])[j].created,
           type |-> "reverse_transfer", direction |-> "out"]]
       \o OwnerReversals(data, k + 1)

\* POST /transactions/owner.
TransactionsOwner(ok) ==
  /\ hreq.kind = "owner"
  /\ hresp = NoResp
  /\ hresp' =
       IF Falsy(hreq.connectAccountId)
       THEN [status |-> 400, error |-> "Missing connectAccountId"]
       ELSE IF ~ok
       THEN [status |-> 500, error |-> UpstreamMessage("transfers.list")]
       ELSE [status |-> 200,
             transactions |->
               SortByCreatedDesc(Payouts(hreq.transfers)
                 \o OwnerReversals(hreq.transfers, 1))]
  /\ UNCHANGED <<now, pis, transfers, refunds, reversals, issued, lastCreate,
                 reqs, hreq>>

InitHistory ==
  /\ now = 0
  /\ pis = Preexisting
  /\ transfers = <<>>
  /\ refunds = <<>>
  /\ reversals = <<>>
  /\ issued = <<>>
  /\ lastCreate = [body |-> [amount |-> Undef], calls |-> <<>>, resp |-> NoResp]
  /\ reqs = <<>>
  /\ hreq \in RenterRequests \cup OwnerRequests
  /\ hresp = NoResp

NextHistory ==
  \/ \E okCharges \in BOOLEAN, okRefunds \in BOOLEAN :
       TransactionsRenter(okCharges, okRefunds)
  \/ \E ok \in BOOLEAN : TransactionsOwner(ok)

SpecHistory == InitHistory /\ [][NextHistory]_vars

\* The entries a history request maps from the platform's records.
Mapped ==
  IF hreq.kind = "renter"
  THEN Payments(hreq.charges) \o Refunds(hreq.refunds, hreq.customerId, 1)
  ELSE Payouts(hreq.transfers) \o OwnerReversals(hreq.transfers, 1)

\* C9: POST /transactions/renter for customer C lists a refund only when the
\* refund's charge is there and its customer is C: a refund of another
\* customer's charge, or one without charge, is never listed.
C9_RefundsOfRequestedCustomerOnly ==
  (hreq.kind = "renter" /\ hresp.status = 200) =>
    \A k \in 1..Len(hreq.refunds) :
      (\E n \in 1..Len(hresp.transactions) :
          hresp.transactions[n].id = <<"re_", k>>)
      => /\ hreq.refunds[k].charge.t # "null"
         /\ hreq.refunds[k].charge.customer = hreq.customerId

\* The platform listed a refund of the customer, one of another customer and
\* the response is out.
C9_Witness ==
  /\ hreq.kind = "renter" /\ hresp.status = 200
  /\ \E k \in 1..Len(hreq.refunds) :
       /\ hreq.refunds[k].charge.t # "null"
       /\ hreq.refunds[k].charge.customer = OtherCustomer
  /\ \E n \in 1..Len(hresp.transactions) :
       hresp.transactions[n].type = "refund"

\* Every mapped entry is in the list once, and nothing else is.
ExactlyOnce ==
  /\ Len(hresp.transactions) = Len(Mapped)
  /\ \A m \in 1..Len(Mapped) :
       Cardinality({n \in 1..Len(hresp.transactions) :
                      hresp.transactions[n] = Mapped[m]}) = 1

\* C10 (as claimed): the list of either history endpoint holds every mapped
\* entry exactly once and is sorted strictly by created descending: an entry
\* is newer than every entry behind it.
C10_SortedStrictlyDescending ==
  hresp.status = 200 =>
    /\ ExactlyOnce
    /\ \A m, n \in 1..Len(hresp.transactions) :
         m < n => hresp.transactions[m].created > hresp.transactions[n].created

\* C10 (amended): the list of either history endpoint holds every mapped
\* entry exactly once and is sorted by created descending: no entry is older
\* than an entry behind it (entries of one timestamp are neighbours).
C10_SortedDescending ==
  hresp.status = 200 =>
    /\ ExactlyOnce
    /\ \A m, n \in 1..Len(hresp.transactions) :
         m < n => hresp.transactions[m].created >= hresp.transactions[n].created

\* A list of three or more entries, with two of one timestamp and one of
\* another, that is not in the order the entries were mapped in.
C10_Witness ==
  /\ hresp.status = 200
  /\ Len(hresp.transactions) >= 3
  /\ hresp.transactions # Mapped
  /\ \E m, n \in 1..Len(hresp.transactions) :
       m # n /\ hresp.transactions[m].created = hresp.transactions[n].created


(* ============================== claims ================================= *)
Done(r) == reqs[r].pc = "done"
Ok200(r) == Done(r) /\ reqs[r].resp.status = 200

\* The positions in a request's log of the calls of one platform operation.
CallsOf(r, op) == {k \in 1..Len(reqs[r].calls) : reqs[r].calls[k].op = op}

\* The transfers a request reversed.
ReversedBy(r) ==
  {reqs[r].calls[k].arg.transfer :
     k \in {j \in CallsOf(r, "transfers.createReversal") : reqs[r].calls[j].ok}}

\* The transfers that belong to payment intent p.
TransfersOf(p) == {t \in 1..Len(transfers) : transfers[t].pi = p}

\* C1: a successful POST /refund for payment P reverses exactly the transfers
\* that belong to P: all of P's, and none of another payment's.
C1_RefundReversesOnlyOwnTransfers ==
  \A r \in 1..Len(reqs) :
    Ok200(r) => ReversedBy(r) = TransfersOf(PiIndex(reqs[r].pid))

\* C2: the transferGroup tokens of any two successful
\* POST /create-payment-intent responses are distinct.
C2_TransferGroupsDistinct ==
  \A i, j \in 1..Len(issued) :
    i # j => issued[i].transferGroup # issued[j].transferGroup

\* C3: a request that fails local validation is answered 400 and issues no
\* platform call: POST /create-payment-intent with amount, customerId or
\* ownerConnectAccountId missing or falsy, POST /refund with paymentIntentId
\* missing.
C3_InvalidRequestNeverReachesPlatform ==
  /\ lastCreate.resp.status # 0 =>
       LET b == lastCreate.body
       IN  (Falsy(b.amount) \/ Falsy(b.customerId) \/ Falsy(b.ownerConnectAccountId))
             => /\ lastCreate.resp.status = 400
                /\ lastCreate.calls = <<>>
  /\ \A r \in 1..Len(reqs) :
       Falsy(reqs[r].pid) =>
         /\ Done(r)
         /\ reqs[r].resp.status = 400
         /\ reqs[r].calls = <<>>
  /\ Len(pis) = Len(Preexisting) + Len(issued)

\* A create request with a mandatory field absent was answered, after one that
\* reached the platform, and a refund request without identifier was answered.
C3_Witness ==
  /\ lastCreate.resp.status = 400
  /\ Len(issued) >= 1
  /\ \E r \in 1..Len(reqs) : Falsy(reqs[r].pid) /\ Done(r)

\* C4: a POST /refund whose transfers.list returned N >= 1 transfers and whose
\* platform calls all succeeded issued exactly N reversals, the k-th for the
\* k-th listed transfer and for that transfer's full amount, and answers
\* transferReversed = true.
C4_OneFullReversalPerListedTransfer ==
  \A r \in 1..Len(reqs) :
    (Ok200(r) /\ Len(reqs[r].data) >= 1) =>
      LET req == reqs[r]
          revs == SelectSeq(req.calls,
                    LAMBDA c : c.op = "transfers.createReversal")
      IN  /\ Len(revs) = Len(req.data)
          /\ \A k \in 1..Len(revs) :
               /\ revs[k].ok
               /\ revs[k].arg.transfer = req.data[k]
               /\ revs[k].arg.amount = transfers[req.data[k]].amount
          /\ \A k1, k2 \in 1..Len(req.data) :
               k1 # k2 => req.data[k1] # req.data[k2]
          /\ req.resp.transferReversed = TRUE

\* A refund that found two transfers under its group, of different amounts,
\* has answered 200.
C4_Witness ==
  \E r \in 1..Len(reqs) :
    /\ Ok200(r)
    /\ Len(reqs[r].data) = 2
    /\ transfers[reqs[r].data[1]].amount # transfers[reqs[r].data[2]].amount

\* C5: when the refund succeeded and the retrieved payment intent has no
\* transfer_group, the response is 200 with success = true and
\* transferReversed = false, and the request called neither transfers.list
\* nor transfers.createReversal.
C5_NoGroupNoReversal ==
  \A r \in 1..Len(reqs) :
    LET req == reqs[r]
    IN  (/\ Len(req.calls) >= 2
         /\ req.calls[1].ok
         /\ req.calls[2].ok
         /\ pis[PiIndex(req.pid)].group = NoGroup)
        => /\ Done(r)
           /\ req.resp.status = 200
           /\ req.resp.success = TRUE
           /\ req.resp.transferReversed = FALSE
           /\ CallsOf(r, "transfers.list") = {}
           /\ CallsOf(r, "transfers.createReversal") = {}

\* The payment without transfer_group was refunded and retrieved.
C5_Witness ==
  \E r \in 1..Len(reqs) :
    /\ Len(reqs[r].calls) = 2
    /\ reqs[r].calls[2].ok
    /\ pis[PiIndex(reqs[r].pid)].group = NoGroup

\* The calls of all requests, so far, of one operation that succeeded.
RECURSIVE Succeeded(_, _)
Succeeded(op, r) ==
  IF r = 0 THEN 0
  ELSE Cardinality({k \in CallsOf(r, op) : reqs[r].calls[k].ok})
         + Succeeded(op, r - 1)

\* C6: in POST /refund, when refunds.create succeeded and a later platform
\* call failed, the response is 500 with that call's message, the failed call
\* is the request's last call (no compensation, no further reversal), and the
\* refund and the reversals already made stay on the platform.
C6_PartialFailureIsNotCompensated ==
  /\ \A r \in 1..Len(reqs) :
       LET req == reqs[r]
       IN  \A k \in 2..Len(req.calls) :
             (req.calls[1].ok /\ ~req.calls[k].ok) =>
               /\ Done(r)
               /\ req.resp.status = 500
               /\ req.resp.error = UpstreamMessage(req.calls[k].op)
               /\ k = Len(req.calls)
               /\ req.refund.id \in 1..Len(refunds)
               /\ refunds[req.refund.id].pi = PiIndex(req.pid)
  /\ Len(refunds) = Succeeded("refunds.create", Len(reqs))
  /\ Len(reversals) = Succeeded("transfers.createReversal", Len(reqs))

\* A refund reversed one of two listed transfers and failed on the other.
C6_Witness ==
  \E r \in 1..Len(reqs) :
    /\ Done(r)
    /\ Len(reqs[r].calls) = 5
    /\ reqs[r].calls[4].ok
    /\ ~reqs[r].calls[5].ok

\* The request refunds a payment that an earlier request refunded with
\* success, reversing the transfers of its group.
IsSecondRefund(r) ==
  /\ ~Falsy(reqs[r].pid)
  /\ \E r0 \in 1..(r - 1) : reqs[r0].pid = reqs[r].pid /\ Ok200(r0)

HasGroup(r) ==
  /\ PiIndex(reqs[r].pid) \in 1..Len(pis)
  /\ pis[PiIndex(reqs[r].pid)].group # NoGroup

\* The earlier refund reversed at least one transfer.
IsRefundOfReversedGroup(r) ==
  /\ ~Falsy(reqs[r].pid)
  /\ \E r0 \in 1..(r - 1) :
       /\ reqs[r0].pid = reqs[r].pid
       /\ Ok200(r0)
       /\ reqs[r0].resp.transferReversed

\* C7 (as claimed): on a second refund of a payment whose group was reversed,
\* whether refunds.create succeeds or fails, transfers.list is attempted when
\* the payment carries a group, and a list without transfers gives a success
\* with transferReversed = false.
C7_ListAttemptedWhateverTheRefund ==
  \A r \in 1..Len(reqs) :
    (IsRefundOfReversedGroup(r) /\ Done(r)) =>
      /\ HasGroup(r) => CallsOf(r, "transfers.list") # {}
      /\ (\E k \in CallsOf(r, "transfers.list") :
            reqs[r].calls[k].ok /\ reqs[r].data = <<>>)
         => /\ reqs[r].resp.status = 200
            /\ reqs[r].resp.transferReversed = FALSE

\* C7 (amended): on a second refund, a failed refunds.create ends the request
\* with 500 and without transfers.list; when refunds.create and
\* paymentIntents.retrieve succeed and the payment carries a group,
\* transfers.list is attempted; a list without transfers gives a success with
\* transferReversed = false.
C7_ListAttemptedAfterRefundSucceeds ==
  \A r \in 1..Len(reqs) :
    (IsSecondRefund(r) /\ Done(r)) =>
      LET req == reqs[r]
      IN  /\ ~req.calls[1].ok =>
               /\ req.resp.status = 500
               /\ CallsOf(r, "transfers.list") = {}
          /\ (/\ Len(req.calls) >= 2
              /\ req.calls[1].ok
              /\ req.calls[2].ok
              /\ HasGroup(r))
             => CallsOf(r, "transfers.list") # {}
          /\ (\E k \in CallsOf(r, "transfers.list") :
                req.calls[k].ok /\ req.data = <<>>)
             => /\ req.resp.status = 200
                /\ req.resp.success = TRUE
                /\ req.resp.transferReversed = FALSE

\* A payment was refunded and its transfer reversed, and a second refund of
\* it has failed in refunds.create and has been answered.
C7_Witness ==
  \E r \in 1..Len(reqs) :
    /\ IsRefundOfReversedGroup(r) /\ Done(r) /\ HasGroup(r)
    /\ ~reqs[r].calls[1].ok

\* A second refund of a payment with a group found no transfer under it.
SecondRefundFoundNoTransfer ==
  \E r \in 1..Len(reqs) :
    /\ IsSecondRefund(r) /\ Ok200(r) /\ HasGroup(r)
    /\ reqs[r].data = <<>>

\* The operation a request calls in the k-th place.
OpAt(k) ==
  CASE k = 1 -> "refunds.create"
    [] k = 2 -> "paymentIntents.retrieve"
    [] k = 3 -> "transfers.list"
    [] OTHER -> "transfers.createReversal"

\* C8: a POST /refund request calls refunds.create, paymentIntents.retrieve,
\* transfers.list and then createReversal for the listed transfers in turn,
\* each call only after the call before it succeeded; after a failed
\* refunds.create it calls nothing.
C8_CallsInStrictOrder ==
  \A r \in 1..Len(reqs) :
    LET req == reqs[r]
    IN  /\ \A k \in 1..Len(req.calls) :
             /\ req.calls[k].op = OpAt(k)
             /\ k < Len(req.calls) => req.calls[k].ok
             /\ k >= 4 => req.calls[k].arg.transfer = req.data[k - 3]
        /\ (Len(req.calls) >= 1 /\ ~req.calls[1].ok) => Len(req.calls) = 1

\* One request went through all four operations, reversing two transfers, and
\* another stopped at a failed refunds.create.
C8_Witness ==
  /\ \E r \in 1..Len(reqs) : Ok200(r) /\ Len(reqs[r].calls) = 5
  /\ \E r \in 1..Len(reqs) : Len(reqs[r].calls) = 1 /\ ~reqs[r].calls[1].ok

====
